---------------------------- MODULE Spec2Model ----------------------------
(***************************************************************************)
(* State-machine model of src/connection.rs (shoop): the crypto::Handler   *)
(* seal/open framing, the connection roles with their Transceiver          *)
(* implementation, and the PortRange utility.                              *)
(*                                                                         *)
(* Byte buffers are sequences of integers in 0..255.  A Rust index i       *)
(* (0-based) is position i+1 of the sequence; Slice(s, a, b) is s[a..b].   *)
(***************************************************************************)
EXTENDS Integers, Sequences, FiniteSets, TLC

VARIABLES
    handlers,   \* the crypto::Handler owned by each role: Client.crypto, Server.crypto
    buf,        \* the caller's buffer passed to seal / open
    last,       \* the last Handler call: its arguments and what it returned
    frame,      \* the frame travelling in buf: what was sealed, and how it was altered since
    seal_log,   \* one entry per successful seal: key, nonce found in the frame, nonce drawn
    failed_opens, \* per handler, the number of open calls that returned Err so far
    server,     \* the Server role: its socket state
    client,     \* the Client role: its socket state
    sessions,   \* the ServerConnection values returned by Server::accept
    wire,       \* the messages handed to the transport (UdtSocket::sendmsg)
    call,       \* the last Transceiver / role call and its outcome
    parsed,     \* the last PortRange::from call: its input and its result
    scan        \* the Server::get_open_port call in progress

vars == <<handlers, buf, last, frame, seal_log, failed_opens,
          server, client, sessions, wire, call, parsed, scan>>

cryptoVars == <<handlers, buf, last, frame, seal_log, failed_opens>>
connVars   == <<server, client, sessions, wire, call>>
portVars   == <<parsed, scan>>

---------------------------------------------------------------------------
(* Bounds of the model *)

\* MAX_MESSAGE_SIZE is 1024000 in the source (connection.rs:13); the model
\* keeps the nonce and tag lengths and scales the message size down so that
\* MAX_MESSAGE_SIZE - 28 is a handful of plaintext bytes.
MAX_MESSAGE_SIZE == 32

\* successful seal calls recorded in seal_log
MaxSeals == 2

\* failed open calls counted per handler
MaxFailedOpens == 1

\* sessions a Server accepts
MaxSessions == 2

\* send calls recorded per session
MaxSends == 1

\* get_open_port is followed on ranges that end at or below this port
MaxScanPort == 8

---------------------------------------------------------------------------
(* Algorithm constants: ALGORITHM = &aead::AES_256_GCM *)

KEY_LEN   == 32
NONCE_LEN == 12
TAG_LEN   == 16

\* u8::max_value()
U8_MAX == 255

Pow2(n) == 2 ^ n

---------------------------------------------------------------------------
(* Slices *)

Zeros(n) == [i \in 1 .. n |-> 0]

\* s[a..b]
Slice(s, a, b) == [i \in 1 .. (b - a) |-> s[a + i]]

\* dst[off .. off + src.len()].copy_from_slice(src)
CopyFromSlice(dst, off, src) ==
    [i \in 1 .. Len(dst) |->
        IF i > off /\ i <= off + Len(src) THEN src[i - off] ELSE dst[i]]

RECURSIVE XorBits(_, _, _)
XorBits(a, b, n) ==
    IF n = 0 THEN 0
    ELSE (((a % 2) + (b % 2)) % 2) + 2 * XorBits(a \div 2, b \div 2, n - 1)

Xor8(a, b) == XorBits(a, b, 8)

\* the byte b with bit k flipped
FlipBit(b, k) == Xor8(b, Pow2(k))

---------------------------------------------------------------------------
(* ring::aead with AES_256_GCM, as far as seal and open depend on it.      *)
(* The cipher is a keyed stream XORed onto the data (counter mode); the    *)
(* tag is a keyed checksum of nonce and ciphertext with odd weights        *)
(* modulo 2^24, so that, as for GHASH, changing a single bit of the nonce, *)
(* the ciphertext or the tag never leaves the tag check satisfied.         *)

RECURSIVE WeightedSum(_, _)
WeightedSum(s, n) ==
    IF n = 0 THEN 0 ELSE (2 * n + 1) * s[n] + WeightedSum(s, n - 1)

KeyMix(key) == WeightedSum(key, Len(key))

\* the key stream of (key, nonce) starts from StreamSeed
StreamSeed(key, nonce) == (KeyMix(key) + 3 * WeightedSum(nonce, Len(nonce)) + 17) % 256

CryptWith(seed, data) ==
    [i \in 1 .. Len(data) |-> Xor8(data[i], (seed + 89 * i) % 256)]

\* encryption and decryption are the same XOR with the key stream
Crypt(key, nonce, data) == CryptWith(StreamSeed(key, nonce), data)

TagWord(key, nonce, ct) ==
    (251 * (KeyMix(key) % 65536) + WeightedSum(nonce \o ct, Len(nonce) + Len(ct))
        + 131 * Len(ct) + 5) % Pow2(24)

TagBytes(w) ==
    [i \in 1 .. TAG_LEN |->
        ((w \div Pow2(8 * ((i - 1) % 3))) + 29 * ((i - 1) \div 3)) % 256]

Tag(key, nonce, ct) == TagBytes(TagWord(key, nonce, ct))

\* aead::seal_in_place(key, nonce, in_out, out_suffix_capacity, ad = [])
seal_in_place(key, nonce, in_out, out_suffix_capacity) ==
    IF \/ out_suffix_capacity < TAG_LEN
       \/ Len(nonce) # NONCE_LEN
       \/ Len(in_out) < out_suffix_capacity
    THEN [ok |-> FALSE, n |-> 0, in_out |-> in_out]
    ELSE
        LET in_out_len == Len(in_out) - out_suffix_capacity
            ct == Crypt(key, nonce, Slice(in_out, 0, in_out_len))
        IN  [ok |-> TRUE,
             n |-> in_out_len + TAG_LEN,
             in_out |-> CopyFromSlice(in_out, 0, ct \o Tag(key, nonce, ct))]

\* aead::open_in_place(key, nonce, in_prefix_len, in_out, ad = []): the
\* plaintext is written to in_out[..n]; when the tag does not verify the
\* bytes written are zeroed again.
open_in_place(key, nonce, in_prefix_len, in_out) ==
    IF \/ Len(nonce) # NONCE_LEN
       \/ Len(in_out) < in_prefix_len + TAG_LEN
    THEN [ok |-> FALSE, n |-> 0, in_out |-> in_out]
    ELSE
        LET ciphertext_len == Len(in_out) - in_prefix_len - TAG_LEN
            ct == Slice(in_out, in_prefix_len, in_prefix_len + ciphertext_len)
            received_tag == Slice(in_out, in_prefix_len + ciphertext_len, Len(in_out))
        IN  IF Tag(key, nonce, ct) = received_tag
            THEN [ok |-> TRUE, n |-> ciphertext_len,
                  in_out |-> CopyFromSlice(in_out, 0, Crypt(key, nonce, ct))]
            ELSE [ok |-> FALSE, n |-> 0,
                  in_out |-> CopyFromSlice(in_out, 0, Zeros(ciphertext_len))]

---------------------------------------------------------------------------
(* crypto::Handler *)

\* Handler::new(key)
Handler_new(key) ==
    [_working_buf |-> Zeros(MAX_MESSAGE_SIZE),
     opening_key  |-> key,
     sealing_key  |-> key]

ERR_TOO_SHORT == "msg not long enough to contain nonce"
ERR_TOO_LARGE == "max message size exceeded"
ERR_DECRYPT   == "decrypt failed"

PANIC_SUFFIX   == "Buffer doesn't have enough suffix padding."
PANIC_OVERFLOW == "attempt to subtract with overflow"
PANIC_SLICE    == "slice index out of range"

SealPanic(self, b, msg) ==
    [res |-> "panic", n |-> 0, msg |-> msg, buf |-> b, self |-> self]

\* seal's Ok arm with the frame length lacking the nonce
seal_write_without_nonce_len(self, b, nonce, sealed, seal_len) ==
    LET nonce_len == NONCE_LEN
    IN  IF nonce_len > Len(b) THEN SealPanic(self, b, PANIC_SLICE)
        ELSE
            LET b1 == CopyFromSlice(b, 0, nonce)
            IN  IF nonce_len + seal_len > Len(b) THEN SealPanic(self, b1, PANIC_SLICE)
                ELSE [res |-> "Ok",
                      n |-> seal_len,
                      msg |-> "",
                      buf |-> CopyFromSlice(b1, nonce_len, Slice(sealed, 0, seal_len)),
                      self |-> self]

\* seal's Ok arm with the nonce never copied into the frame
seal_write_without_nonce(self, b, nonce, sealed, seal_len) ==
    LET nonce_len == NONCE_LEN
    IN  IF nonce_len + seal_len > Len(b) THEN SealPanic(self, b, PANIC_SLICE)
        ELSE [res |-> "Ok",
              n |-> nonce_len + seal_len,
              msg |-> "",
              buf |-> CopyFromSlice(b, nonce_len, Slice(sealed, 0, seal_len)),
              self |-> self]

\* the Ok(seal_len) arm of seal: the nonce goes to buf[..nonce_len], the
\* ciphertext and tag behind it; either copy panics when buf is too short
seal_write(self, b, nonce, sealed, seal_len) ==
    LET nonce_len == NONCE_LEN
    IN  IF nonce_len > Len(b) THEN SealPanic(self, b, PANIC_SLICE)
        ELSE
            LET b1 == CopyFromSlice(b, 0, nonce)
            IN  IF nonce_len + seal_len > Len(b) THEN SealPanic(self, b1, PANIC_SLICE)
                ELSE [res |-> "Ok",
                      n |-> nonce_len + seal_len,
                      msg |-> "",
                      buf |-> CopyFromSlice(b1, nonce_len, Slice(sealed, 0, seal_len)),
                      self |-> self]

\* Handler::seal(&mut self, buf, len).  nonce is what self.rand.fill wrote;
\* overflow_checks tells whether the build traps on integer overflow (debug)
\* or wraps (release).  When buf.len() - max_suffix_len wraps, its value is
\* within 16 of usize::MAX and every len passes the assertion.
seal(self, b, len, nonce, overflow_checks) ==
    LET nonce_len == NONCE_LEN
        max_suffix_len == TAG_LEN
        underflow == Len(b) < max_suffix_len
        suffix_ok == IF underflow THEN TRUE ELSE len <= Len(b) - max_suffix_len
    IN  IF ~(nonce_len < U8_MAX) THEN SealPanic(self, b, "Uh, why is the nonce size this big?")
        ELSE IF underflow /\ overflow_checks THEN SealPanic(self, b, PANIC_OVERFLOW)
        ELSE IF ~suffix_ok THEN SealPanic(self, b, PANIC_SUFFIX)
        ELSE IF len > Len(b) THEN SealPanic(self, b, PANIC_SLICE)
        ELSE
            LET sealed0 == CopyFromSlice(Zeros(len + max_suffix_len), 0, Slice(b, 0, len))
                r == seal_in_place(self.sealing_key, nonce, sealed0, max_suffix_len)
            IN  IF ~r.ok
                THEN [res |-> "Err", n |-> 0, msg |-> "", buf |-> b, self |-> self]
                ELSE seal_write(self, b, nonce, r.in_out, r.n)

\* open's last expression with a failed open_in_place taken for success
open_result_unchecked(self, b, r) ==
    [res |-> "Ok", n |-> Len(b) - NONCE_LEN - TAG_LEN, msg |-> "", buf |-> r.in_out,
     self |-> self, reached_aead |-> TRUE]

\* open's last expression with the opening key dropped after a failure
open_result_poisoned(self, b, r) ==
    IF r.ok
    THEN [res |-> "Ok", n |-> r.n, msg |-> "", buf |-> r.in_out, self |-> self,
          reached_aead |-> TRUE]
    ELSE [res |-> "Err", n |-> 0, msg |-> ERR_DECRYPT, buf |-> r.in_out,
          self |-> [self EXCEPT !.opening_key = Zeros(KEY_LEN)], reached_aead |-> TRUE]

\* open's last expression: open_in_place(..).map_err(|_| "decrypt failed")
open_result(self, b, r) ==
    IF r.ok
    THEN [res |-> "Ok", n |-> r.n, msg |-> "", buf |-> r.in_out, self |-> self,
          reached_aead |-> TRUE]
    ELSE [res |-> "Err", n |-> 0, msg |-> ERR_DECRYPT, buf |-> r.in_out,
          self |-> self, reached_aead |-> TRUE]

\* open without the upper length check
open_without_max_check(self, b) ==
    LET nonce_len == NONCE_LEN
    IN  IF Len(b) < nonce_len
        THEN [res |-> "Err", n |-> 0, msg |-> ERR_TOO_SHORT, buf |-> b, self |-> self,
              reached_aead |-> FALSE]
        ELSE
            LET nonce == Slice(b, 0, nonce_len)
            IN  open_result(self, b, open_in_place(self.opening_key, nonce, nonce_len, b))

\* Handler::open(&mut self, buf)
open(self, b) ==
    LET nonce_len == NONCE_LEN
    IN  IF Len(b) < nonce_len
        THEN [res |-> "Err", n |-> 0, msg |-> ERR_TOO_SHORT, buf |-> b, self |-> self,
              reached_aead |-> FALSE]
        ELSE IF Len(b) > MAX_MESSAGE_SIZE
        THEN [res |-> "Err", n |-> 0, msg |-> ERR_TOO_LARGE, buf |-> b, self |-> self,
              reached_aead |-> FALSE]
        ELSE
            LET nonce == Slice(b, 0, nonce_len)
            IN  open_result(self, b, open_in_place(self.opening_key, nonce, nonce_len, b))

---------------------------------------------------------------------------
(* Inputs *)

HandlerIds == {"server", "client"}

\* a buffer of n bytes: byte i is seed * i modulo 256 (seed 0: all zero)
Fill(seed, n) == [i \in 1 .. n |-> (seed * i) % 256]

\* the keys gen_key() may have produced
KeySpace == {Fill(3, KEY_LEN), Fill(7, KEY_LEN)}

ServerKey == Fill(7, KEY_LEN)

\* what SystemRandom::fill may write into the nonce
NonceSpace == {Fill(0, NONCE_LEN), Fill(5, NONCE_LEN)}

\* contents of the caller's buffer
DataSeeds == {0, 37}

\* capacities of the buffer handed to seal
BufCaps == {0, TAG_LEN - 2, NONCE_LEN + TAG_LEN + 1, MAX_MESSAGE_SIZE}

\* lengths of the buffers handed to open as received
RawLens == {0, NONCE_LEN - 1, NONCE_LEN, NONCE_LEN + TAG_LEN - 1, NONCE_LEN + TAG_LEN,
            MAX_MESSAGE_SIZE, MAX_MESSAGE_SIZE + 1, MAX_MESSAGE_SIZE + 2}

\* the plaintext lengths handed to seal with a buffer of cap bytes: the short
\* ones, and those around each of seal's limits
SealLens(cap) ==
    {l \in 0 .. cap + 1 :
        \/ l <= MAX_MESSAGE_SIZE - NONCE_LEN - TAG_LEN + 1
        \/ l \in (cap - TAG_LEN - 1) .. (cap - TAG_LEN + 1)
        \/ l >= cap}

\* the bits of a byte a transmission error flips
FlipBits == 0 .. 7

NoCall ==
    [op |-> "none", h |-> "none", cap |-> 0, len |-> 0, res |-> "none", n |-> 0,
     msg |-> "", drawn |-> <<>>, input |-> <<>>, reached_aead |-> FALSE]

NoFrame ==
    [h |-> "none", key |-> <<>>, cap |-> 0, pt |-> <<>>, sealed |-> <<>>, flipped |-> "none"]

\* application messages handed to Transceiver::send
Messages == {<<1>>, <<2, 3>>}

NoRoleCall == [op |-> "none", role |-> "none", res |-> "none", msg |-> <<>>, sent |-> <<>>]

NoParse == [op |-> "none", input |-> <<>>, res |-> "none", start |-> 0, end |-> 0, msg |-> ""]

NoScan ==
    [pc |-> "idle", start |-> 0, end |-> 0, p |-> 0, tried |-> <<>>, res |-> "none",
     port |-> 0]

---------------------------------------------------------------------------
(* The state after construction *)

\* the server is given ServerKey; the client the same key or another one
InitCrypto ==
    /\ \E kc \in KeySpace :
          handlers = [h \in HandlerIds |->
                         IF h = "server" THEN Handler_new(ServerKey) ELSE Handler_new(kc)]
    /\ buf = <<>>
    /\ last = NoCall
    /\ frame = NoFrame
    /\ seal_log = <<>>
    /\ failed_opens = [h \in HandlerIds |-> 0]

\* Server::new and Client::new have run: the server's socket is bound, the
\* client's is not connected, and each owns the Handler built from its key
InitConn ==
    /\ server = [state |-> "Bound", crypto |-> "server"]
    /\ client = [state |-> "Unconnected", crypto |-> "client"]
    /\ sessions = <<>>
    /\ wire = <<>>
    /\ call = NoRoleCall

InitPorts ==
    /\ parsed = NoParse
    /\ scan = NoScan

Init == InitCrypto /\ InitConn /\ InitPorts

---------------------------------------------------------------------------
(* Handler calls *)

\* handler.seal(&mut data, len) on a buffer of cap bytes, as in test::roundtrip
Seal(h, cap, len, seed, nonce, overflow_checks) ==
    /\ last.op = "none"
    /\ Len(seal_log) < MaxSeals
    /\ \E data \in {Fill(seed, cap)} :
       \E r \in {seal(handlers[h], data, len, nonce, overflow_checks)} :
           /\ handlers' = [handlers EXCEPT ![h] = r.self]
           /\ buf' = r.buf
           /\ last' = [NoCall EXCEPT !.op = "seal", !.h = h, !.cap = cap, !.len = len,
                                     !.res = r.res, !.n = r.n, !.msg = r.msg,
                                     !.drawn = nonce, !.input = data]
           /\ frame' = IF r.res = "Ok"
                       THEN [h |-> h, key |-> handlers[h].sealing_key, cap |-> cap,
                             pt |-> Slice(data, 0, len),
                             sealed |-> Slice(r.buf, 0, r.n), flipped |-> "none"]
                       ELSE NoFrame
           /\ seal_log' = IF r.res = "Ok"
                          THEN Append(seal_log, [key |-> handlers[h].sealing_key,
                                                 nonce |-> Slice(r.buf, 0, NONCE_LEN),
                                                 drawn |-> nonce])
                          ELSE seal_log
    /\ UNCHANGED <<failed_opens, connVars, portVars>>

\* one bit of the sealed frame changes between seal and open
Tamper(pos, bit) ==
    /\ last.op = "seal"
    /\ last.res = "Ok"
    /\ pos < last.n
    /\ buf' = [buf EXCEPT ![pos + 1] = FlipBit(buf[pos + 1], bit)]
    /\ last' = [last EXCEPT !.op = "tamper"]
    /\ frame' = [frame EXCEPT !.flipped = IF pos < NONCE_LEN THEN "nonce" ELSE "body"]
    /\ UNCHANGED <<handlers, seal_log, failed_opens, connVars, portVars>>

OpenCall(h, input) ==
    \E r \in {open(handlers[h], input)} :
        /\ handlers' = [handlers EXCEPT ![h] = r.self]
        /\ buf' = r.buf
        /\ last' = [NoCall EXCEPT !.op = "open", !.h = h, !.cap = Len(input),
                                  !.res = r.res, !.n = r.n, !.msg = r.msg,
                                  !.input = input, !.reached_aead = r.reached_aead]
        /\ failed_opens' =
              IF r.res = "Err" /\ failed_opens[h] < MaxFailedOpens
              THEN [failed_opens EXCEPT ![h] = @ + 1]
              ELSE failed_opens

\* handler.open(&mut data[..cipher_len]) on the frame in the buffer
Open(h) ==
    /\ \/ last.op = "seal" /\ last.res = "Ok"
       \/ last.op = "tamper"
    /\ OpenCall(h, Slice(buf, 0, last.n))
    /\ UNCHANGED <<frame, seal_log, connVars, portVars>>

\* handler.open(buf) on a received buffer that no seal produced
OpenRaw(h, len, seed) ==
    /\ last.op = "none"
    /\ OpenCall(h, Fill(seed, len))
    /\ frame' = NoFrame
    /\ UNCHANGED <<seal_log, connVars, portVars>>

\* the caller is done with the buffer
Discard ==
    /\ last.op # "none"
    /\ buf' = <<>>
    /\ last' = NoCall
    /\ frame' = NoFrame
    /\ UNCHANGED <<handlers, seal_log, failed_opens, connVars, portVars>>

NextCrypto ==
    \/ \E h \in HandlerIds, cap \in BufCaps, seed \in DataSeeds, nonce \in NonceSpace,
          oc \in BOOLEAN :
          \E len \in SealLens(cap) : Seal(h, cap, len, seed, nonce, oc)
    \/ \E h \in HandlerIds : Open(h)
    \/ \E h \in HandlerIds, len \in RawLens, seed \in DataSeeds : OpenRaw(h, len, seed)
    \/ Discard

SpecCrypto == Init /\ [][NextCrypto]_vars

\* a frame is sealed into a full-size buffer, one bit of it flips in transit,
\* and a handler opens it
NextTamper ==
    \/ \E h \in HandlerIds, seed \in DataSeeds, nonce \in NonceSpace, oc \in BOOLEAN :
          \E len \in 0 .. MAX_MESSAGE_SIZE - NONCE_LEN - TAG_LEN :
             Seal(h, MAX_MESSAGE_SIZE, len, seed, nonce, oc)
    \/ \E pos \in 0 .. MAX_MESSAGE_SIZE - 1, bit \in FlipBits : Tamper(pos, bit)
    \/ \E h \in HandlerIds : Open(h)

SpecTamper == Init /\ [][NextTamper]_vars

---------------------------------------------------------------------------
(* Connection roles and the Transceiver trait *)

\* fn send(sock, key, buf, len): unimplemented!()
send(sock, key, b, len) == [res |-> "panic", sent |-> <<>>]

\* fn recv(sock, key, buf): unimplemented!()
recv(sock, key, b) == [res |-> "panic", n |-> 0]

\* <Client as Transceiver>::send and <ServerConnection as Transceiver>::send:
\* unimplemented!(), the call to send() being commented out
Transceiver_send(role, b) == [res |-> "panic", sent |-> <<>>]

\* <Client as Transceiver>::recv and <ServerConnection as Transceiver>::recv
Transceiver_recv(role, b) == [res |-> "panic", n |-> 0]

\* the ServerConnection that Server::accept builds around the accepted socket
ServerConnection(srv, sock) ==
    [crypto |-> srv.crypto, sock |-> sock, open |-> TRUE, asked |-> <<>>, frames |-> <<>>]

\* Server::listen: self.sock.listen(2)
Listen(ok) ==
    /\ server.state = "Bound"
    /\ server' = IF ok THEN [server EXCEPT !.state = "Listening"] ELSE server
    /\ call' = [NoRoleCall EXCEPT !.op = "listen", !.role = "server",
                                  !.res = IF ok THEN "Ok" ELSE "Err"]
    /\ UNCHANGED <<client, sessions, wire, cryptoVars, portVars>>

\* Server::accept: self.sock.accept().map(..)
Accept(ok) ==
    /\ Len(sessions) < MaxSessions
    /\ LET accepted == ok /\ server.state = "Listening"
       IN  /\ sessions' = IF accepted
                          THEN Append(sessions, ServerConnection(server, Len(sessions) + 1))
                          ELSE sessions
           /\ call' = [NoRoleCall EXCEPT !.op = "accept", !.role = "server",
                                         !.res = IF accepted THEN "Ok" ELSE "Err"]
    /\ UNCHANGED <<server, client, wire, cryptoVars, portVars>>

\* Client::connect: self.sock.connect(self.addr)
Connect(ok) ==
    /\ client.state = "Unconnected"
    /\ client' = IF ok THEN [client EXCEPT !.state = "Connected"] ELSE client
    /\ call' = [NoRoleCall EXCEPT !.op = "connect", !.role = "client",
                                  !.res = IF ok THEN "Ok" ELSE "Err"]
    /\ UNCHANGED <<server, sessions, wire, cryptoVars, portVars>>

\* client.send(msg)
ClientSend(msg) ==
    /\ client.state = "Connected"
    /\ \E r \in {Transceiver_send(client, msg)} :
          /\ wire' = wire \o r.sent
          /\ call' = [NoRoleCall EXCEPT !.op = "send", !.role = "client", !.res = r.res,
                                        !.msg = msg, !.sent = r.sent]
    /\ UNCHANGED <<server, client, sessions, cryptoVars, portVars>>

\* session.send(msg) on the i-th accepted session
SessionSend(i, msg) ==
    /\ sessions[i].open
    /\ Len(sessions[i].asked) < MaxSends
    /\ \E r \in {Transceiver_send(sessions[i], msg)} :
          /\ wire' = wire \o r.sent
          /\ sessions' = [sessions EXCEPT ![i].asked = Append(@, msg),
                                          ![i].frames = @ \o r.sent]
          /\ call' = [NoRoleCall EXCEPT !.op = "send", !.role = "session", !.res = r.res,
                                        !.msg = msg, !.sent = r.sent]
    /\ UNCHANGED <<server, client, cryptoVars, portVars>>

\* client.recv(buf) and session.recv(buf)
Recv(role) ==
    /\ \/ role = "client" /\ client.state = "Connected"
       \/ role = "session" /\ \E i \in 1 .. Len(sessions) : sessions[i].open
    /\ \E r \in {Transceiver_recv(role, <<>>)} :
          call' = [NoRoleCall EXCEPT !.op = "recv", !.role = role, !.res = r.res]
    /\ UNCHANGED <<server, client, sessions, wire, cryptoVars, portVars>>

\* session.close(): self.sock.close(); a second close fails in the transport
SessionClose(i) ==
    /\ sessions' = [sessions EXCEPT ![i].open = FALSE]
    /\ call' = [NoRoleCall EXCEPT !.op = "close", !.role = "session",
                                  !.res = IF sessions[i].open THEN "Ok" ELSE "Err"]
    /\ UNCHANGED <<server, client, wire, cryptoVars, portVars>>

\* client.close()
ClientClose ==
    /\ client' = [client EXCEPT !.state = "Closed"]
    /\ call' = [NoRoleCall EXCEPT !.op = "close", !.role = "client",
                                  !.res = IF client.state = "Closed" THEN "Err" ELSE "Ok"]
    /\ UNCHANGED <<server, sessions, wire, cryptoVars, portVars>>

NextConn ==
    \/ \E ok \in BOOLEAN : Listen(ok)
    \/ \E ok \in BOOLEAN : Accept(ok)
    \/ \E ok \in BOOLEAN : Connect(ok)
    \/ \E msg \in Messages : ClientSend(msg)
    \/ \E i \in 1 .. Len(sessions), msg \in Messages : SessionSend(i, msg)
    \/ \E role \in {"client", "session"} : Recv(role)
    \/ \E i \in 1 .. Len(sessions) : SessionClose(i)
    \/ ClientClose

SpecConn == Init /\ [][NextConn]_vars

---------------------------------------------------------------------------
(* PortRange and Server::get_open_port *)

U16_MAX == 65535

Digits == <<"0", "1", "2", "3", "4", "5", "6", "7", "8", "9">>

IsDigit(c) == \E d \in 1 .. 10 : Digits[d] = c

\* char::to_digit(10) of a decimal digit
ToDigit(c) == (CHOOSE d \in 1 .. 10 : Digits[d] = c) - 1

SubStr(s, a, b) == [i \in 1 .. (b - a) |-> s[a + i]]

\* s.split(c).collect(): the pieces between the occurrences of c, empty ones kept
RECURSIVE Split(_, _)
Split(s, c) ==
    IF \A i \in 1 .. Len(s) : s[i] # c
    THEN <<s>>
    ELSE LET k == CHOOSE i \in 1 .. Len(s) :
                     s[i] = c /\ \A j \in 1 .. (i - 1) : s[j] # c
         IN  <<SubStr(s, 0, k - 1)>> \o Split(SubStr(s, k, Len(s)), c)

\* the digit loop of u16::from_str_radix(.., 10): checked_mul, then checked_add
RECURSIVE ParseDigits(_, _, _)
ParseDigits(digits, i, acc) ==
    IF i > Len(digits) THEN [ok |-> TRUE, value |-> acc]
    ELSE IF ~IsDigit(digits[i]) THEN [ok |-> FALSE, value |-> 0]
    ELSE IF acc * 10 > U16_MAX THEN [ok |-> FALSE, value |-> 0]
    ELSE IF acc * 10 + ToDigit(digits[i]) > U16_MAX THEN [ok |-> FALSE, value |-> 0]
    ELSE ParseDigits(digits, i + 1, acc * 10 + ToDigit(digits[i]))

\* str::parse::<u16>(): an optional '+', then one or more digits, no overflow
parse_u16(src) ==
    IF Len(src) = 0 THEN [ok |-> FALSE, value |-> 0]
    ELSE LET digits == IF src[1] = "+" THEN SubStr(src, 1, Len(src)) ELSE src
         IN  IF Len(digits) = 0 THEN [ok |-> FALSE, value |-> 0]
             ELSE ParseDigits(digits, 1, 0)

ERR_RANGE_ORDER == "range end must be greater than or equal to start"
ERR_RANGE_FORM  == "Range must be specified in the form of \"<start>-<end>\""
ERR_RANGE_PARSE == "improperly formatted port range"

\* PortRange::new with the comparison off by one: start = end is refused
PortRange_new_strict(start, end) ==
    IF start >= end
    THEN [res |-> "Err", start |-> 0, end |-> 0, msg |-> ERR_RANGE_ORDER]
    ELSE [res |-> "Ok", start |-> start, end |-> end, msg |-> ""]

\* PortRange::new(start, end)
PortRange_new(start, end) ==
    IF start > end
    THEN [res |-> "Err", start |-> 0, end |-> 0, msg |-> ERR_RANGE_ORDER]
    ELSE [res |-> "Ok", start |-> start, end |-> end, msg |-> ""]

\* PortRange::from(s)
PortRange_from(s) ==
    LET sections == Split(s, "-")
    IN  IF Len(sections) # 2
        THEN [res |-> "Err", start |-> 0, end |-> 0, msg |-> ERR_RANGE_FORM]
        ELSE LET start == parse_u16(sections[1])
                 end == parse_u16(sections[2])
             IN  IF ~start.ok \/ ~end.ok
                 THEN [res |-> "Err", start |-> 0, end |-> 0, msg |-> ERR_RANGE_PARSE]
                 ELSE PortRange_new(start.value, end.value)

\* the pieces port range strings are put together from
Pieces ==
    {<<>>, <<"0">>, <<"3">>, <<"5">>, <<"0", "0", "7">>, <<"+", "4">>, <<"+">>,
     <<"1", "0", "0", "0">>, <<"2", "0", "0", "0">>,
     <<"6", "5", "5", "3", "5">>, <<"6", "5", "5", "3", "6">>,
     <<"a", "b", "c">>, <<" ", "1">>}

\* the strings handed to PortRange::from: a piece alone, two pieces around a
\* '-', and two pieces with a third section behind them
PortStrings ==
    Pieces
    \cup {a \o <<"-">> \o b : a \in Pieces, b \in Pieces}
    \cup {a \o <<"-">> \o b \o <<"-">> \o c :
             a \in Pieces, b \in Pieces, c \in {<<>>, <<"5">>}}

\* PortRange::from(s)
ParsePortRange(s) ==
    /\ scan.pc = "idle"
    /\ parsed.op = "none"
    /\ \E r \in {PortRange_from(s)} :
          parsed' = [op |-> "from", input |-> s, res |-> r.res, start |-> r.start,
                     end |-> r.end, msg |-> r.msg]
    /\ UNCHANGED <<scan, cryptoVars, connVars>>

\* the ports of start ..= end
RangeInclusive(range, port) == range.start <= port /\ port <= range.end

\* `for p in range.start..range.end`: the ports the loop visits
Range(range, port) == range.start <= port /\ port < range.end

\* Server::get_open_port(&range) is called with the range just parsed
GetOpenPort ==
    /\ scan.pc = "idle"
    /\ parsed.res = "Ok"
    /\ parsed.end <= MaxScanPort
    /\ scan' = [NoScan EXCEPT !.pc = "loop", !.start = parsed.start, !.end = parsed.end,
                              !.p = parsed.start]
    /\ UNCHANGED <<parsed, cryptoVars, connVars>>

\* one turn of the loop: UdpSocket::bind("0.0.0.0:p") succeeds or fails
TryBind(bound) ==
    /\ scan.pc = "loop"
    /\ Range(scan, scan.p)
    /\ scan' = IF bound
               THEN [scan EXCEPT !.pc = "done", !.res = "Ok", !.port = scan.p,
                                 !.tried = Append(@, [port |-> scan.p, bound |-> TRUE])]
               ELSE [scan EXCEPT !.p = @ + 1,
                                 !.tried = Append(@, [port |-> scan.p, bound |-> FALSE])]
    /\ UNCHANGED <<parsed, cryptoVars, connVars>>

\* the loop ends with no port bound: Err(())
ScanExhausted ==
    /\ scan.pc = "loop"
    /\ ~Range(scan, scan.p)
    /\ scan' = [scan EXCEPT !.pc = "done", !.res = "Err"]
    /\ UNCHANGED <<parsed, cryptoVars, connVars>>

\* the caller has the result
ScanReturn ==
    /\ scan.pc = "done"
    /\ scan' = NoScan
    /\ UNCHANGED <<parsed, cryptoVars, connVars>>

\* the caller drops the parse result
DropRange ==
    /\ scan.pc = "idle"
    /\ parsed.op # "none"
    /\ parsed' = NoParse
    /\ UNCHANGED <<scan, cryptoVars, connVars>>

NextPorts ==
    \/ \E s \in PortStrings : ParsePortRange(s)
    \/ DropRange
    \/ GetOpenPort
    \/ \E bound \in BOOLEAN : TryBind(bound)
    \/ ScanExhausted
    \/ ScanReturn

SpecPorts == Init /\ [][NextPorts]_vars

---------------------------------------------------------------------------
(* Properties of the Handler *)

\* nonce_len + max_overhead_len: what a frame adds to its plaintext
FRAME_OVERHEAD == NONCE_LEN + TAG_LEN

\* the open call just made was given, unaltered, a frame that a seal produced
OpenedSealedFrame ==
    /\ last.op = "open"
    /\ frame.h # "none"
    /\ frame.flipped = "none"

\* C1 (round trip): with a MAX_MESSAGE_SIZE buffer and a plaintext length L in
\* 1 .. MAX_MESSAGE_SIZE - 28, seal succeeds with a frame length n, and open
\* of buf[..n] on the same handler succeeds, returns L and leaves the
\* original plaintext in buf[..L].
C1_RoundTrip ==
    /\ (/\ last.op = "seal"
        /\ last.cap = MAX_MESSAGE_SIZE
        /\ last.len \in 1 .. MAX_MESSAGE_SIZE - FRAME_OVERHEAD)
       => (last.res = "Ok" /\ last.n \in 1 .. last.cap)
    /\ (/\ OpenedSealedFrame
        /\ frame.h = last.h
        /\ frame.cap = MAX_MESSAGE_SIZE
        /\ Len(frame.pt) \in 1 .. MAX_MESSAGE_SIZE - FRAME_OVERHEAD)
       => /\ last.res = "Ok"
          /\ last.n = Len(frame.pt)
          /\ Slice(buf, 0, last.n) = frame.pt

\* the longest plaintext, not all zero, was sealed and opened again by the
\* handler that sealed it
C1_Witness ==
    /\ OpenedSealedFrame
    /\ frame.h = last.h
    /\ frame.cap = MAX_MESSAGE_SIZE
    /\ Len(frame.pt) = MAX_MESSAGE_SIZE - FRAME_OVERHEAD
    /\ frame.pt # Zeros(Len(frame.pt))
    /\ last.res = "Ok"

\* C2 (tamper detection): a sealed frame with one bit flipped, in its nonce,
\* its ciphertext or its tag, is refused with "decrypt failed" by every
\* handler holding the key it was sealed under; no such open succeeds.
C2_TamperDetected ==
    (/\ last.op = "open"
     /\ frame.flipped # "none"
     /\ handlers[last.h].opening_key = frame.key)
    => /\ last.res = "Err"
       /\ last.msg = ERR_DECRYPT

\* the peer holding the same key refused a frame whose body was altered,
\* and the sealing handler one whose nonce was
C2_Witness ==
    /\ last.op = "open"
    /\ handlers[last.h].opening_key = frame.key
    /\ last.res = "Err"
    /\ \/ frame.flipped = "body" /\ last.h # frame.h /\ Len(frame.pt) > 0
       \/ frame.flipped = "nonce" /\ last.h = frame.h /\ Len(frame.pt) > 0

\* C3 (seal capacity check): seal succeeds when len + 28 <= capacity, and
\* otherwise returns an error to its caller.
C3_SealCapacityCheck ==
    last.op = "seal"
    => IF last.len + FRAME_OVERHEAD <= last.cap
       THEN last.res = "Ok"
       ELSE last.res = "Err"

\* what seal does instead: it succeeds exactly when len + 28 <= capacity and
\* panics otherwise, never returning Err
C3_SealPanicsWhenTooSmall ==
    last.op = "seal"
    => IF last.len + FRAME_OVERHEAD <= last.cap
       THEN last.res = "Ok" /\ last.n = last.len + FRAME_OVERHEAD
       ELSE last.res = "panic"

\* C4 (open's length checks): a buffer shorter than the nonce is refused as
\* too short and one longer than MAX_MESSAGE_SIZE as too large, both before
\* the nonce is read or anything is decrypted and with the buffer untouched;
\* exactly the lengths 12 .. MAX_MESSAGE_SIZE reach open_in_place.
C4_OpenLengthChecks ==
    last.op = "open"
    => /\ last.cap < NONCE_LEN
          => /\ last.res = "Err" /\ last.msg = ERR_TOO_SHORT
             /\ ~last.reached_aead /\ buf = last.input
       /\ last.cap > MAX_MESSAGE_SIZE
          => /\ last.res = "Err" /\ last.msg = ERR_TOO_LARGE
             /\ ~last.reached_aead /\ buf = last.input
       /\ last.reached_aead <=> last.cap \in NONCE_LEN .. MAX_MESSAGE_SIZE

\* a buffer one byte too long was refused
C4_Witness ==
    /\ last.op = "open"
    /\ last.cap = MAX_MESSAGE_SIZE + 1
    /\ last.res = "Err"
    /\ last.msg = ERR_TOO_LARGE

\* C7 (failures are recoverable): once opens on a handler have failed, a seal
\* on it still succeeds whenever the buffer has room, and its open of an
\* unaltered frame sealed under its key still returns the plaintext.
C7_FailureIsRecoverable ==
    \A h \in HandlerIds :
        failed_opens[h] > 0
        => /\ (/\ last.op = "seal" /\ last.h = h
               /\ last.len + FRAME_OVERHEAD <= last.cap)
              => last.res = "Ok"
           /\ (/\ OpenedSealedFrame /\ last.h = h
               /\ frame.key = handlers[h].sealing_key)
              => /\ last.res = "Ok"
                 /\ last.n = Len(frame.pt)
                 /\ Slice(buf, 0, last.n) = frame.pt

\* after a failed open on it, a handler sealed a frame and opened it again
C7_Witness ==
    /\ OpenedSealedFrame
    /\ frame.h = last.h
    /\ failed_opens[last.h] > 0
    /\ Len(frame.pt) > 0
    /\ last.res = "Ok"
    /\ Slice(buf, 0, last.n) = frame.pt

SameKeySeals ==
    {p \in (1 .. Len(seal_log)) \X (1 .. Len(seal_log)) :
        p[1] < p[2] /\ seal_log[p[1]].key = seal_log[p[2]].key}

\* C8 (nonce freshness): the nonces in bytes [0, 12) of the frames sealed
\* under one key are pairwise distinct.
C8_NoncesPairwiseDistinct ==
    \A p \in SameKeySeals : seal_log[p[1]].nonce # seal_log[p[2]].nonce

\* C8 as the code has it: bytes [0, 12) of every sealed frame hold the nonce
\* that this seal call drew from the random source, so two frames under one
\* key carry distinct nonces exactly when the two draws differ.
C8_NonceIsTheDraw ==
    /\ \A i \in 1 .. Len(seal_log) : seal_log[i].nonce = seal_log[i].drawn
    /\ \A p \in SameKeySeals :
          seal_log[p[1]].nonce # seal_log[p[2]].nonce
          <=> seal_log[p[1]].drawn # seal_log[p[2]].drawn

\* two seals under one key whose draws differed
C8_Witness ==
    \E p \in SameKeySeals : seal_log[p[1]].drawn # seal_log[p[2]].drawn

---------------------------------------------------------------------------
(* Properties of the connection roles *)

\* the Handler a role seals and opens with
RoleHandler(role) == IF role = "client" THEN handlers[client.crypto] ELSE handlers[server.crypto]

\* the frame opens, under the handler hd, to the plaintext msg
OpensTo(hd, fr, msg) ==
    LET r == open(hd, fr)
    IN  r.res = "Ok" /\ Slice(r.buf, 0, r.n) = msg

\* C5 (Transceiver send): send(bytes) on a Client or on an accepted session
\* seals the plaintext with the role's Handler and hands the frame to the
\* transport as exactly one message, returning Ok; or it returns an error
\* and nothing has been handed to the transport.
C5_SendSealsThenTransmits ==
    call.op = "send"
    => \/ /\ call.res = "Ok"
          /\ Len(call.sent) = 1
          /\ OpensTo(RoleHandler(call.role), call.sent[1], call.msg)
       \/ /\ call.res = "Err"
          /\ call.sent = <<>>

\* C6 (shared-handler sessions): every accepted session references the
\* Server's own Handler, and every message a session was asked to send
\* became a frame that the Server's Handler opens to that message.
C6_SharedHandlerSessions ==
    \A i \in 1 .. Len(sessions) :
        /\ sessions[i].crypto = server.crypto
        /\ Len(sessions[i].frames) = Len(sessions[i].asked)
        /\ \A j \in 1 .. Len(sessions[i].frames) :
              OpensTo(handlers[server.crypto], sessions[i].frames[j], sessions[i].asked[j])

\* the part of C6 that accept alone decides: no session has a Handler of
\* its own
SessionsReferenceServerHandler ==
    \A i \in 1 .. Len(sessions) : sessions[i].crypto = server.crypto

---------------------------------------------------------------------------
(* Properties of PortRange and get_open_port *)

DashCount(s) == Cardinality({i \in 1 .. Len(s) : s[i] = "-"})

DashAt(s) == CHOOSE i \in 1 .. Len(s) : s[i] = "-"

BeforeDash(s) == SubStr(s, 0, DashAt(s) - 1)

AfterDash(s) == SubStr(s, DashAt(s), Len(s))

Unsigned(t) == IF Len(t) > 0 /\ t[1] = "+" THEN SubStr(t, 1, Len(t)) ELSE t

\* the number a string of decimal digits denotes
RECURSIVE Denotes(_, _)
Denotes(d, n) == IF n = 0 THEN 0 ELSE ToDigit(d[n]) + 10 * Denotes(d, n - 1)

\* the text of an unsigned 16-bit integer
IsU16Text(t) ==
    LET d == Unsigned(t)
    IN  /\ Len(d) > 0
        /\ \A i \in 1 .. Len(d) : IsDigit(d[i])
        /\ Denotes(d, Len(d)) <= U16_MAX

U16Value(t) == Denotes(Unsigned(t), Len(Unsigned(t)))

WellFormedRange(s) ==
    /\ DashCount(s) = 1
    /\ IsU16Text(BeforeDash(s))
    /\ IsU16Text(AfterDash(s))
    /\ U16Value(BeforeDash(s)) <= U16Value(AfterDash(s))

Text_1000_2000 == <<"1", "0", "0", "0", "-", "2", "0", "0", "0">>
Text_2000_1000 == <<"2", "0", "0", "0", "-", "1", "0", "0", "0">>
Text_abc_2000  == <<"a", "b", "c", "-", "2", "0", "0", "0">>
Text_1000      == <<"1", "0", "0", "0">>

\* C9 (port range parsing): PortRange::from(s) succeeds exactly when s is
\* "<start>-<end>" with both parts the text of a u16 and start <= end, and
\* then yields that start and end; every other string is refused.
\* "1000-2000" gives 1000 and 2000; "2000-1000", "abc-2000" and "1000" fail.
C9_PortRangeParsing ==
    parsed.op = "from"
    => /\ parsed.res \in {"Ok", "Err"}
       /\ parsed.res = "Ok" <=> WellFormedRange(parsed.input)
       /\ parsed.res = "Ok"
          => /\ parsed.start = U16Value(BeforeDash(parsed.input))
             /\ parsed.end = U16Value(AfterDash(parsed.input))
       /\ parsed.input = Text_1000_2000
          => parsed.res = "Ok" /\ parsed.start = 1000 /\ parsed.end = 2000
       /\ parsed.input \in {Text_2000_1000, Text_abc_2000, Text_1000}
          => parsed.res = "Err"

\* a range whose bounds are equal, the largest port, was accepted
C9_Witness ==
    /\ parsed.op = "from"
    /\ parsed.res = "Ok"
    /\ parsed.start = U16_MAX
    /\ parsed.end = U16_MAX

\* C10 (get_open_port): the ports are tried in ascending order from start,
\* the port `end` is never tried, the result is the first port whose bind
\* succeeded, and it is Err when no port of [start, end) could be bound, so
\* always for a range with start = end.
C10_ScanIsHalfOpen ==
    /\ \A i \in 1 .. Len(scan.tried) :
          /\ scan.tried[i].port = scan.start + i - 1
          /\ scan.tried[i].port < scan.end
          /\ i < Len(scan.tried) => ~scan.tried[i].bound
    /\ scan.pc = "done"
       => /\ scan.res \in {"Ok", "Err"}
          /\ scan.res = "Ok"
             => /\ Len(scan.tried) > 0
                /\ scan.tried[Len(scan.tried)].bound
                /\ scan.port = scan.tried[Len(scan.tried)].port
          /\ scan.res = "Err"
             => /\ Len(scan.tried) = scan.end - scan.start
                /\ \A i \in 1 .. Len(scan.tried) : ~scan.tried[i].bound
          /\ scan.start = scan.end => scan.res = "Err"

\* a range with start = end, accepted by the parser, was scanned
C10_Witness ==
    /\ scan.pc = "done"
    /\ parsed.res = "Ok"
    /\ scan.start = scan.end
    /\ scan.start > 0
    /\ scan.res = "Err"

=============================================================================
